---- MODULE Spec2Model ----
(***************************************************************************)
(* Model of utils/convert_nuscenes_to_json.py: the conversion of a         *)
(* directory of {timestep}_{camera}.txt extrinsics and {camera}.txt        *)
(* intrinsics into a multi-camera transforms.json document.                *)
(*                                                                         *)
(* Strings are sequences of one-character strings, compared by code point  *)
(* as Python compares them.  Matrices are sequences of rows of integers;   *)
(* the matrices read from files have determinant 1, -1 or 0, so that the   *)
(* inverse computed by the adjugate is exact.                              *)
(***************************************************************************)
EXTENDS Integers, Sequences, FiniteSets, TLC

VARIABLES
    listing,          \* os.listdir(extrinsics_dir): file names, in the order returned
    file_matrix,      \* file name -> the array np.loadtxt reads from it
    intrinsics_dir,   \* camera id -> content of {camera}.txt, or Missing
    args,             \* the arguments of convert_nuscenes_to_transforms
    pc,               \* position in convert_nuscenes_to_transforms / main
    files,            \* load_extrinsics_from_directory: the .txt files
    extrinsics,       \* insertion-ordered dict: sequence of [name, matrix]
    camera_ids,       \* set of camera ids derived from the keys
    all_intrinsics,   \* dict camera id -> intrinsics record or None
    camera_front_start, \* the reference matrix, or None
    frames,           \* transforms["frames"]
    frame_names,      \* the camera_name of each appended frame (loop history)
    output,           \* content of the file at output_path, NotWritten if untouched
    error,            \* the exception that ended the run, "" if none
    exit_status       \* process exit status, -1 while running

vars == <<listing, file_matrix, intrinsics_dir, args, pc, files, extrinsics,
          camera_ids, all_intrinsics, camera_front_start, frames, frame_names,
          output, error, exit_status>>

(***************************************************************************)
(* Bounds                                                                  *)
(***************************************************************************)
MaxFiles == 2

(***************************************************************************)
(* Python values                                                           *)
(***************************************************************************)
\* None where a str or an array is expected (no str or array has this form)
None == <<"None">>

\* None where an intrinsics dict is expected
NoIntrinsics == [py |-> "None"]

\* the file at output_path before anything opened it
NotWritten == [file |-> "untouched"]

\* os.path.exists(intrinsics_file) is False
Missing == <<"missing">>

\* bool(v) of an optional string
Truthy(v) == v # None /\ v # <<>>

(***************************************************************************)
(* Strings                                                                 *)
(***************************************************************************)
Ord == [c \in {".", "/", "0", "1", "_", "a", "d", "g", "i", "j", "m", "n",
               "p", "s", "t", "x", "e"} |->
          CASE c = "." -> 46 [] c = "/" -> 47 [] c = "0" -> 48 [] c = "1" -> 49
            [] c = "_" -> 95 [] c = "a" -> 97 [] c = "d" -> 100 [] c = "e" -> 101 [] c = "g" -> 103
            [] c = "i" -> 105 [] c = "j" -> 106 [] c = "m" -> 109 [] c = "n" -> 110
            [] c = "p" -> 112 [] c = "s" -> 115 [] c = "t" -> 116 [] c = "x" -> 120]

RECURSIVE StrLess(_, _)
\* a < b on Python str: code-point lexicographic, a proper prefix is smaller
StrLess(a, b) ==
    IF b = <<>> THEN FALSE
    ELSE IF a = <<>> THEN TRUE
    ELSE IF Head(a) = Head(b) THEN StrLess(Tail(a), Tail(b))
    ELSE Ord[Head(a)] < Ord[Head(b)]

\* s.endswith(suffix)
EndsWith(s, suffix) ==
    /\ Len(s) >= Len(suffix)
    /\ SubSeq(s, Len(s) - Len(suffix) + 1, Len(s)) = suffix

RECURSIVE SplitFrom(_, _, _)
SplitFrom(s, sep, part) ==
    IF s = <<>> THEN <<part>>
    ELSE IF Head(s) = sep THEN <<part>> \o SplitFrom(Tail(s), sep, <<>>)
    ELSE SplitFrom(Tail(s), sep, Append(part, Head(s)))

\* s.split(sep) for a one-character separator
Split(s, sep) == SplitFrom(s, sep, <<>>)

RECURSIVE SetToSeq(_)
SetToSeq(S) ==
    IF S = {} THEN <<>>
    ELSE LET x == CHOOSE y \in S : TRUE IN <<x>> \o SetToSeq(S \ {x})

\* sorted(...) of a sequence of str
SortedSeq(s) == SortSeq(s, StrLess)

\* sorted(...) of a set of str
SortedSet(S) == SortedSeq(SetToSeq(S))

(***************************************************************************)
(* Matrices                                                                *)
(***************************************************************************)
\* matrix.shape of a 2-d array
Shape(m) == <<Len(m), Len(m[1])>>

\* np.matmul of two 4x4 arrays
MatMul(a, b) ==
    [i \in 1..4 |-> [j \in 1..4 |->
        a[i][1] * b[1][j] + a[i][2] * b[2][j] + a[i][3] * b[3][j] + a[i][4] * b[4][j]]]

Det3(m) ==
      m[1][1] * (m[2][2] * m[3][3] - m[2][3] * m[3][2])
    - m[1][2] * (m[2][1] * m[3][3] - m[2][3] * m[3][1])
    + m[1][3] * (m[2][1] * m[3][2] - m[2][2] * m[3][1])

\* m without row r and column c
Minor(m, r, c) ==
    LET rows == SelectSeq(<<1, 2, 3, 4>>, LAMBDA i : i # r)
        cols == SelectSeq(<<1, 2, 3, 4>>, LAMBDA j : j # c)
    IN  [i \in 1..3 |-> [j \in 1..3 |-> m[rows[i]][cols[j]]]]

Sign(i, j) == IF (i + j) % 2 = 0 THEN 1 ELSE -1

Cofactor(m, i, j) == Sign(i, j) * Det3(Minor(m, i, j))

Det(m) ==
    m[1][1] * Cofactor(m, 1, 1) + m[1][2] * Cofactor(m, 1, 2)
  + m[1][3] * Cofactor(m, 1, 3) + m[1][4] * Cofactor(m, 1, 4)

\* np.linalg.inv raises LinAlgError on a singular matrix
Singular(m) == Det(m) = 0

\* np.linalg.inv of a non-singular 4x4 array: adjugate over determinant
Inverse(m) ==
    LET d == Det(m)
    IN  [i \in 1..4 |-> [j \in 1..4 |-> Cofactor(m, j, i) \div d]]

Identity4 == [i \in 1..4 |-> [j \in 1..4 |-> IF i = j THEN 1 ELSE 0]]

(***************************************************************************)
(* Inputs                                                                  *)
(***************************************************************************)
Txt == <<".", "t", "x", "t">>

\* keys of the extrinsics files a directory may hold
KeyPool ==
    { <<"0", "_", "0">>, <<"0", "_", "1">>, <<"1", "_", "0">>,
      <<"0", "_", "1", "_", "0">>, <<"1">> }

\* file names a directory may hold: the keys with .txt, and one other file
NamePool == { k \o Txt : k \in KeyPool } \cup { <<"a", ".", "m", "d">> }

\* translation by (1, 0, 0)
TranslateX == <<<<1, 0, 0, 1>>, <<0, 1, 0, 0>>, <<0, 0, 1, 0>>, <<0, 0, 0, 1>>>>

\* rotation by a quarter turn about z, then translation by (0, 2, 0)
RotateZ == <<<<0, -1, 0, 0>>, <<1, 0, 0, 2>>, <<0, 0, 1, 0>>, <<0, 0, 0, 1>>>>

\* a 4x4 array with no inverse
Flat == <<<<1, 0, 0, 0>>, <<0, 0, 0, 0>>, <<0, 0, 1, 0>>, <<0, 0, 0, 1>>>>

\* a 3x3 array
Small == <<<<1, 0, 0>>, <<0, 1, 0>>, <<0, 0, 1>>>>

MatrixPool == { TranslateX, RotateZ, Flat, Small }

Cam0 == <<"0">>

Cam1 == <<"1">>

\* contents of the intrinsics directory: every file present and complete, or
\* one file absent, or one file with two values only
IntrinsicsDirs ==
    LET good == (Cam0 :> <<500, 510, 320, 240, 0, 0>>) @@ (Cam1 :> <<600, 610, 330, 250, 0, 0>>)
    IN  {good} \cup { [good EXCEPT ![c] = x] : c \in {Cam0, Cam1}, x \in {Missing, <<500, 510>>} }

ImagesDirs == { None, <<>>, <<"i", "m", "g", "s">>, <<"d">> }

ImageExts == { <<".", "j", "p", "g">>, <<".", "p", "n", "g">> }

Sizes == { <<1600, 900>>, <<640, 480>> }

\* every combination of the options of convert_nuscenes_to_transforms
ArgSets ==
    [images_dir : ImagesDirs, image_ext : ImageExts, size : Sizes, multi_camera : BOOLEAN]

\* the defaults of main's argument parser, with and without --multi_camera
DefaultArgs ==
    [images_dir : {<<"i", "m", "a", "g", "e", "s">>}, image_ext : {<<".", "j", "p", "g">>},
     size : {<<1600, 900>>}, multi_camera : BOOLEAN]

\* the sequences of at most n distinct names of S
Listings(S, n) ==
    { s \in UNION { [1..k -> S] : k \in 0..n } :
        \A i, j \in DOMAIN s : i # j => s[i] # s[j] }

Range(s) == { s[i] : i \in DOMAIN s }

\* a well-formed array for each file, different for the two cameras
UsualMatrix(name) == IF EndsWith(name, <<"0">> \o Txt) THEN RotateZ ELSE TranslateX

GoodIntrinsics == CHOOSE d \in IntrinsicsDirs : \A c \in DOMAIN d : Len(d[c]) >= 4

\* Either the directories vary (any arrays, any intrinsics files) under the
\* default options, or the options vary over directories of well-formed files.
Init ==
    /\ listing \in Listings(NamePool, MaxFiles)
    /\ \/ /\ file_matrix \in [Range(listing) -> MatrixPool]
          /\ intrinsics_dir \in IntrinsicsDirs
          /\ args \in DefaultArgs
       \/ /\ file_matrix = [f \in Range(listing) |-> UsualMatrix(f)]
          /\ intrinsics_dir = GoodIntrinsics
          /\ args \in ArgSets
    /\ pc = "scan"
    /\ files = <<>>
    /\ extrinsics = <<>>
    /\ camera_ids = {}
    /\ all_intrinsics = <<>>
    /\ camera_front_start = None
    /\ frames = <<>>
    /\ frame_names = <<>>
    /\ output = NotWritten
    /\ error = ""
    /\ exit_status = -1

(***************************************************************************)
(* load_extrinsics_from_directory                                          *)
(***************************************************************************)
\* extrinsics.keys(), in insertion order
Keys(d) == [i \in DOMAIN d |-> d[i].name]

\* extrinsics[name]
Lookup(d, name) == (CHOOSE i \in DOMAIN d : d[i].name = name)

\* an uncaught exception ends the process with status 1
Raise(e) ==
    /\ error' = e
    /\ exit_status' = 1
    /\ pc' = "exit"

\* an empty listing carried on into the conversion
ScanDirectoryCarriesOn ==
    /\ pc = "scan"
    /\ files' = SelectSeq(listing, LAMBDA f : EndsWith(f, Txt))
    /\ pc' = "load_extrinsics"
    /\ UNCHANGED <<listing, file_matrix, intrinsics_dir, args, extrinsics, camera_ids,
                   all_intrinsics, camera_front_start, frames, frame_names, output, error,
                   exit_status>>

\* lines 46-52, and 135-137 with main's exit(1) when nothing was listed
ScanDirectory ==
    /\ pc = "scan"
    /\ LET found == SelectSeq(listing, LAMBDA f : EndsWith(f, Txt))
       IN  /\ files' = found
           /\ IF found = <<>>
              THEN /\ pc' = "exit"
                   /\ exit_status' = 1
              ELSE /\ pc' = "load_extrinsics"
                   /\ UNCHANGED exit_status
    /\ UNCHANGED <<listing, file_matrix, intrinsics_dir, args, extrinsics, camera_ids,
                   all_intrinsics, camera_front_start, frames, frame_names, output, error>>

\* lines 55-66: one iteration of the loop over files
LoadExtrinsicsFile ==
    /\ pc = "load_extrinsics"
    /\ Len(extrinsics) < Len(files)
    /\ LET filename == files[Len(extrinsics) + 1]
           matrix == file_matrix[filename]
       IN  IF Shape(matrix) = <<4, 4>>
           THEN /\ extrinsics' = Append(extrinsics,
                       [name |-> SubSeq(filename, 1, Len(filename) - 4), matrix |-> matrix])
                /\ UNCHANGED <<pc, error, exit_status>>
           ELSE /\ Raise("ValueError")
                /\ UNCHANGED extrinsics
    /\ UNCHANGED <<listing, file_matrix, intrinsics_dir, args, files, camera_ids,
                   all_intrinsics, camera_front_start, frames, frame_names, output>>

(***************************************************************************)
(* convert_nuscenes_to_transforms                                          *)
(***************************************************************************)
\* the second component of every key that has one
DetectedCamerasOfAnyKey(names) ==
    { Split(names[i], "_")[2] : i \in { j \in DOMAIN names : Len(Split(names[j], "_")) >= 2 } }

\* lines 144-150: the camera ids of the keys that split in two
DetectedCameras(names) ==
    { Split(names[i], "_")[2] : i \in { j \in DOMAIN names : Len(Split(names[j], "_")) = 2 } }

\* lines 68-69, 133-152: the loader returns, multi-camera mode derives the ids
DetectCameras ==
    /\ pc = "load_extrinsics"
    /\ Len(extrinsics) = Len(files)
    /\ args.multi_camera
    /\ camera_ids' = DetectedCameras(Keys(extrinsics))
    /\ pc' = "load_intrinsics"
    /\ UNCHANGED <<listing, file_matrix, intrinsics_dir, args, files, extrinsics,
                   all_intrinsics, camera_front_start, frames, frame_names, output,
                   error, exit_status>>

\* single-camera mode carried on into the multi-camera path
SingleCameraModeCarriesOn ==
    /\ pc = "load_extrinsics"
    /\ Len(extrinsics) = Len(files)
    /\ ~args.multi_camera
    /\ pc' = "load_intrinsics"
    /\ UNCHANGED <<listing, file_matrix, intrinsics_dir, args, files, extrinsics,
                   camera_ids, all_intrinsics, camera_front_start, frames, frame_names,
                   output, error, exit_status>>

\* lines 68-69, 133-139, 167-169: the loader returns, single-camera mode raises
SingleCameraMode ==
    /\ pc = "load_extrinsics"
    /\ Len(extrinsics) = Len(files)
    /\ ~args.multi_camera
    /\ Raise("NotImplementedError")
    /\ UNCHANGED <<listing, file_matrix, intrinsics_dir, args, files, extrinsics,
                   camera_ids, all_intrinsics, camera_front_start, frames, frame_names,
                   output>>

\* os.path.exists / np.loadtxt of {camera_id}.txt
IntrinsicsFile(camera_id) ==
    IF camera_id \in DOMAIN intrinsics_dir THEN intrinsics_dir[camera_id] ELSE Missing

\* the nuScenes size in place of the size the caller gave
IntrinsicsOfDefaultSize(data) ==
    [fx |-> data[1], fy |-> data[2], cx |-> data[3], cy |-> data[4],
     width |-> 1600, height |-> 900]

\* load_intrinsics, lines 81-91, for data read from an existing file
IntrinsicsOf(data) ==
    [fx |-> data[1], fy |-> data[2], cx |-> data[3], cy |-> data[4],
     width |-> args.size[1], height |-> args.size[2]]

\* zeros in place of the intrinsics of an absent file
ZeroIntrinsics ==
    [fx |-> 0, fy |-> 0, cx |-> 0, cy |-> 0, width |-> args.size[1], height |-> args.size[2]]

\* load_intrinsics, lines 75-77: what the caller receives when the file is absent
AbsentIntrinsics == NoIntrinsics

\* lines 155-158 with load_intrinsics (71-91): one iteration over sorted(camera_ids)
LoadIntrinsics ==
    /\ pc = "load_intrinsics"
    /\ Cardinality(DOMAIN all_intrinsics) < Cardinality(camera_ids)
    /\ LET cam_id == SortedSet(camera_ids)[Cardinality(DOMAIN all_intrinsics) + 1]
           data == IntrinsicsFile(cam_id)
       IN  IF data = Missing
           THEN /\ all_intrinsics' = all_intrinsics @@ (cam_id :> AbsentIntrinsics)
                /\ UNCHANGED <<pc, error, exit_status>>
           ELSE IF Len(data) >= 4
           THEN /\ all_intrinsics' = all_intrinsics @@ (cam_id :> IntrinsicsOf(data))
                /\ UNCHANGED <<pc, error, exit_status>>
           ELSE /\ Raise("ValueError")
                /\ UNCHANGED all_intrinsics
    /\ UNCHANGED <<listing, file_matrix, intrinsics_dir, args, files, extrinsics,
                   camera_ids, camera_front_start, frames, frame_names, output>>

\* every key taken for a front-camera key
AnyFrameCandidates(names) == SortedSeq(names)

\* line 175: the keys, sorted, that name the front camera
FirstFrameCandidates(names) ==
    SelectSeq(SortedSeq(names), LAMBDA name : EndsWith(name, <<"_", "0">>))

\* lines 176-177: the key of the reference pose
FirstCameraName(candidates) == candidates[1]

\* lines 160-184: every camera is loaded; the reference pose is chosen
\* (os.path.exists(extrinsics_path) holds, the directory was just listed, and
\* the key taken from the dict's own keys is always found)
SelectReference ==
    /\ pc = "load_intrinsics"
    /\ Cardinality(DOMAIN all_intrinsics) = Cardinality(camera_ids)
    /\ LET first_frame_candidates == FirstFrameCandidates(Keys(extrinsics))
       IN  camera_front_start' =
              IF first_frame_candidates # <<>>
              THEN extrinsics[Lookup(extrinsics, FirstCameraName(first_frame_candidates))].matrix
              ELSE None
    /\ pc' = "frames"
    /\ UNCHANGED <<listing, file_matrix, intrinsics_dir, args, files, extrinsics,
                   camera_ids, all_intrinsics, frames, frame_names, output, error,
                   exit_status>>

\* the product taken in the other order
AlignOnTheRight(reference, transform_matrix) ==
    MatMul(transform_matrix, Inverse(reference))

\* lines 191-193: the pose relative to the reference
Align(reference, transform_matrix) == MatMul(Inverse(reference), transform_matrix)

\* no default directory for an empty or absent images_dir
ImagePathNoDefault(camera_name) ==
    (IF args.images_dir = None THEN <<>> ELSE args.images_dir)
        \o <<"/">> \o camera_name \o args.image_ext

\* lines 200-203
ImagePath(camera_name) ==
    IF Truthy(args.images_dir)
    THEN args.images_dir \o <<"/">> \o camera_name \o args.image_ext
    ELSE <<"i", "m", "a", "g", "e", "s">> \o <<"/">> \o camera_name \o args.image_ext

\* lines 206-224: the frame entry with the intrinsics of its camera
Frame(image_path, transform_matrix, cam_intrinsics) ==
    [file_path |-> image_path, transform_matrix |-> transform_matrix,
     fl_x |-> cam_intrinsics.fx, fl_y |-> cam_intrinsics.fy,
     cx |-> cam_intrinsics.cx, cy |-> cam_intrinsics.cy,
     w |-> cam_intrinsics.width, h |-> cam_intrinsics.height]

\* the keys visited in the order the dict holds them
ProcessingOrderAsLoaded(names) == names

\* line 187: the order in which the keys are visited
ProcessingOrder(names) == SortedSeq(names)

\* lines 187-226: one iteration of the loop over sorted(extrinsics.keys())
AssembleFrame ==
    /\ pc = "frames"
    /\ Len(frames) < Len(extrinsics)
    /\ LET camera_name == ProcessingOrder(Keys(extrinsics))[Len(frames) + 1]
           raw == extrinsics[Lookup(extrinsics, camera_name)].matrix
           parts == Split(camera_name, "_")
       IN  IF camera_front_start # None /\ Singular(camera_front_start)
           THEN /\ Raise("LinAlgError")
                /\ UNCHANGED <<frames, frame_names>>
           ELSE IF Len(parts) # 2
           THEN /\ Raise("AssertionError")
                /\ UNCHANGED <<frames, frame_names>>
           ELSE IF parts[2] \notin DOMAIN all_intrinsics
           THEN /\ Raise("AssertionError")
                /\ UNCHANGED <<frames, frame_names>>
           ELSE IF all_intrinsics[parts[2]] = NoIntrinsics
           THEN /\ Raise("TypeError")
                /\ UNCHANGED <<frames, frame_names>>
           ELSE /\ frames' = Append(frames,
                       Frame(ImagePath(camera_name),
                             IF camera_front_start # None
                             THEN Align(camera_front_start, raw) ELSE raw,
                             all_intrinsics[parts[2]]))
                /\ frame_names' = Append(frame_names, camera_name)
                /\ UNCHANGED <<pc, error, exit_status>>
    /\ UNCHANGED <<listing, file_matrix, intrinsics_dir, args, files, extrinsics,
                   camera_ids, all_intrinsics, camera_front_start, output>>

\* lines 161-163: the document, with no global intrinsics
Transforms(fs) == [frames |-> fs]

\* lines 229-244: the document is saved, then the summary reads the intrinsics
\* of every camera id (a None entry raises there); main ends with status 0
WriteDocument ==
    /\ pc = "frames"
    /\ Len(frames) = Len(extrinsics)
    /\ output' = Transforms(frames)
    /\ IF \E cam_id \in camera_ids : all_intrinsics[cam_id] = NoIntrinsics
       THEN Raise("TypeError")
       ELSE /\ exit_status' = 0
            /\ pc' = "exit"
            /\ UNCHANGED error
    /\ UNCHANGED <<listing, file_matrix, intrinsics_dir, args, files, extrinsics,
                   camera_ids, all_intrinsics, camera_front_start, frames, frame_names>>

Next ==
    \/ ScanDirectory
    \/ LoadExtrinsicsFile
    \/ DetectCameras
    \/ SingleCameraMode
    \/ LoadIntrinsics
    \/ SelectReference
    \/ AssembleFrame
    \/ WriteDocument

Spec == Init /\ [][Next]_vars

(***************************************************************************)
(* What the inputs hold, read off the directories and the options          *)
(***************************************************************************)
Finished == pc = "exit"

Written == output # NotWritten

TxtFiles == { f \in Range(listing) : EndsWith(f, Txt) }

InputKeys == { SubSeq(f, 1, Len(f) - 4) : f \in TxtFiles }

RawOf(key) == file_matrix[key \o Txt]

WellFormed(key) == Len(Split(key, "_")) = 2

CameraOf(key) == Split(key, "_")[2]

FrontKeys == { k \in InputKeys : WellFormed(k) /\ CameraOf(k) = Cam0 }

Smallest(S) == CHOOSE k \in S : \A o \in S \ {k} : StrLess(k, o)

Before(key) == { k \in InputKeys : StrLess(k, key) }

NeededCameras == { CameraOf(k) : k \in { x \in InputKeys : WellFormed(x) } }

EmptyDirectory == TxtFiles = {}

BadShape == \E f \in TxtFiles : Shape(file_matrix[f]) # <<4, 4>>

MalformedKey == \E k \in InputKeys : ~WellFormed(k)

ShortIntrinsics ==
    \E c \in NeededCameras : IntrinsicsFile(c) # Missing /\ Len(IntrinsicsFile(c)) < 4

MissingIntrinsics == \E c \in NeededCameras : IntrinsicsFile(c) = Missing

SingularReference ==
    /\ ~BadShape
    /\ FrontKeys # {}
    /\ Singular(RawOf(Smallest(FrontKeys)))

UnsupportedMode == ~args.multi_camera

AnyFailure ==
    \/ EmptyDirectory
    \/ BadShape
    \/ MalformedKey
    \/ ShortIntrinsics
    \/ MissingIntrinsics
    \/ SingularReference
    \/ UnsupportedMode

(***************************************************************************)
(* C1: in a written document, when some key has camera component "0", the  *)
(* reference is the raw matrix of the smallest such key, every key K has a *)
(* frame whose transform_matrix is inverse(reference) x raw(K), and the     *)
(* frame of the reference key holds the identity.  While frames are        *)
(* assembled from well-formed keys the same reference is in use.           *)
(***************************************************************************)
C1_AlignedToFirstFrontCamera ==
    (FrontKeys # {} /\ (Written \/ (pc = "frames" /\ ~MalformedKey))) =>
        LET reference == RawOf(Smallest(FrontKeys))
        IN  /\ camera_front_start = reference
            /\ \A i \in DOMAIN frames :
                  /\ frames[i].transform_matrix =
                        MatMul(Inverse(reference), RawOf(frame_names[i]))
                  /\ frame_names[i] = Smallest(FrontKeys) =>
                        frames[i].transform_matrix = Identity4
            /\ Written =>
                  /\ output.frames = frames
                  /\ \A k \in InputKeys : \E i \in DOMAIN frames : frame_names[i] = k

\* a document with the reference frame first and a second frame moved by alignment
C1_Witness ==
    /\ Written
    /\ Len(output.frames) = 2
    /\ FrontKeys # {}
    /\ output.frames[1].transform_matrix = Identity4
    /\ camera_front_start # Identity4
    /\ output.frames[2].transform_matrix # RawOf(frame_names[2])
    /\ RawOf(frame_names[2]) # camera_front_start

(***************************************************************************)
(* C2: when no key has camera component "0", a written document holds the  *)
(* raw matrix of every key, no reference was chosen, and a run whose       *)
(* inputs are otherwise valid ends successfully with the document written. *)
(***************************************************************************)
C2_NoFrontCameraPassesThrough ==
    FrontKeys = {} =>
        /\ Written =>
              /\ camera_front_start = None
              /\ output.frames = frames
              /\ \A k \in InputKeys : \E i \in DOMAIN frames :
                    frame_names[i] = k /\ frames[i].transform_matrix = RawOf(k)
              /\ \A i \in DOMAIN frames : frames[i].transform_matrix = RawOf(frame_names[i])
        /\ (Finished /\ ~AnyFailure) => (Written /\ exit_status = 0 /\ error = "")

\* a document written without a front camera, holding a matrix that has no inverse
C2_Witness ==
    /\ Written
    /\ FrontKeys = {}
    /\ exit_status = 0
    /\ \E i \in DOMAIN output.frames : output.frames[i].transform_matrix = Flat

(***************************************************************************)
(* C3: a written document holds exactly one frame per input key, in        *)
(* strictly ascending lexicographic key order, whatever the listing order. *)
(***************************************************************************)
C3_FramesInKeyOrder ==
    Written =>
        /\ Len(output.frames) = Cardinality(InputKeys)
        /\ Len(frame_names) = Len(output.frames)
        /\ { frame_names[i] : i \in DOMAIN frame_names } = InputKeys
        /\ \A i, j \in DOMAIN frame_names : i < j => StrLess(frame_names[i], frame_names[j])
        /\ \A i \in DOMAIN output.frames :
              EndsWith(output.frames[i].file_path, <<"/">> \o frame_names[i] \o args.image_ext)

\* a document of two frames whose files were listed in descending order
C3_Witness ==
    /\ Written
    /\ Len(output.frames) = 2
    /\ Len(listing) = 2
    /\ StrLess(listing[2], listing[1])

(***************************************************************************)
(* C4 as stated: the file_path of every frame is images_dir + "/" + key +  *)
(* image_ext, an absent images_dir counting as the empty string.           *)
(***************************************************************************)
C4_PathAlwaysFromImagesDir ==
    Written => \A i \in DOMAIN output.frames :
        output.frames[i].file_path =
            (IF args.images_dir = None THEN <<>> ELSE args.images_dir)
                \o <<"/">> \o frame_names[i] \o args.image_ext

(***************************************************************************)
(* C4 amended: the file_path of every frame is images_dir + "/" + key +    *)
(* image_ext when images_dir is a non-empty string, and "images/" + key +  *)
(* image_ext when images_dir is empty or absent.                           *)
(***************************************************************************)
C4_PathWithDefaultDirectory ==
    /\ \A i \in DOMAIN frames :
          frames[i].file_path =
              (IF args.images_dir = None \/ args.images_dir = <<>>
               THEN <<"i", "m", "a", "g", "e", "s">> ELSE args.images_dir)
                  \o <<"/">> \o frame_names[i] \o args.image_ext
    /\ Written => (output.frames = frames /\ Len(frame_names) = Len(frames))

\* a written frame under an empty images_dir and the non-default extension
C4_Witness ==
    /\ Written
    /\ args.images_dir = <<>>
    /\ args.image_ext = <<".", "p", "n", "g">>
    /\ Len(output.frames) >= 1

(***************************************************************************)
(* C5: a written document has the single top-level field frames, and each  *)
(* frame carries the first four values of the intrinsics file of the       *)
(* camera named by its own key, with the width and height of the caller.   *)
(***************************************************************************)
C5_PerFrameIntrinsics ==
    Written =>
        /\ DOMAIN output = {"frames"}
        /\ \A i \in DOMAIN output.frames :
              LET data == IntrinsicsFile(CameraOf(frame_names[i]))
                  frame == output.frames[i]
              IN  /\ data # Missing
                  /\ frame.fl_x = data[1]
                  /\ frame.fl_y = data[2]
                  /\ frame.cx = data[3]
                  /\ frame.cy = data[4]
                  /\ frame.w = args.size[1]
                  /\ frame.h = args.size[2]

\* a document of two cameras with different intrinsics and a non-default size
C5_Witness ==
    /\ Written
    /\ Len(output.frames) = 2
    /\ output.frames[1].fl_x # output.frames[2].fl_x
    /\ output.frames[1].w = 640
    /\ output.frames[1].h = 480

(***************************************************************************)
(* C6: the document is written only at the end of a run in which nothing   *)
(* failed; a finished run with any failure has exit status 1 and left the  *)
(* output file untouched, and a finished run without one wrote it.         *)
(***************************************************************************)
C6_NoOutputOnFailure ==
    /\ Written =>
          /\ Finished
          /\ exit_status = 0
          /\ error = ""
          /\ ~AnyFailure
          /\ Len(extrinsics) = Cardinality(TxtFiles)
          /\ DOMAIN all_intrinsics = NeededCameras
          /\ Len(output.frames) = Len(extrinsics)
    /\ (Finished /\ AnyFailure) => (exit_status = 1 /\ ~Written)
    /\ (Finished /\ ~AnyFailure) => (exit_status = 0 /\ Written)
    /\ ~Finished => exit_status = -1

\* a run that failed on missing intrinsics after a frame was assembled
C6_Witness ==
    /\ Finished
    /\ error = "TypeError"
    /\ Len(frames) = 1
    /\ exit_status = 1
    /\ ~Written

(***************************************************************************)
(* C7 as stated: with multi-camera mode disabled every run ends with the   *)
(* not-implemented failure, raised before any extrinsics are loaded.       *)
(***************************************************************************)
C7_AlwaysNotImplemented ==
    (~args.multi_camera /\ Finished) =>
        (error = "NotImplementedError" /\ extrinsics = <<>>)

(***************************************************************************)
(* C7 amended: with multi-camera mode disabled no document is written and  *)
(* every run ends with status 1; it ends with the not-implemented failure  *)
(* exactly when the directory holds at least one .txt file and all of them *)
(* are 4x4, and then after all of them were loaded; an empty directory     *)
(* ends as a reported failure and a non-4x4 file with ValueError.          *)
(***************************************************************************)
C7_NotImplementedAfterLoading ==
    ~args.multi_camera =>
        /\ ~Written
        /\ camera_ids = {} /\ all_intrinsics = <<>> /\ frames = <<>>
        /\ Finished =>
              /\ exit_status = 1
              /\ error = IF EmptyDirectory THEN ""
                         ELSE IF BadShape THEN "ValueError"
                         ELSE "NotImplementedError"
              /\ error = "NotImplementedError" => Len(extrinsics) = Cardinality(TxtFiles)

\* the not-implemented failure raised after two files were loaded
C7_Witness ==
    /\ ~args.multi_camera
    /\ Finished
    /\ error = "NotImplementedError"
    /\ Len(extrinsics) = 2

(***************************************************************************)
(* C8 as stated: a camera id whose intrinsics file is missing is absent    *)
(* from the intrinsics mapping, and the run fails on the membership        *)
(* requirement.                                                            *)
(***************************************************************************)
C8_MissingCameraAbsentFromMapping ==
    /\ \A c \in DOMAIN all_intrinsics : IntrinsicsFile(c) # Missing
    /\ (Finished /\ ~EmptyDirectory /\ ~BadShape /\ ~MalformedKey /\ ~ShortIntrinsics
          /\ ~SingularReference /\ ~UnsupportedMode /\ MissingIntrinsics)
          => error = "AssertionError"

(***************************************************************************)
(* C9: a key that does not split into two components contributes no camera *)
(* id and no intrinsics load; no run with such a key writes a document;    *)
(* the run ends with status 1, and the assertion fails exactly when the    *)
(* smallest such key is reached after the frames of all smaller keys.      *)
(***************************************************************************)
C9_MalformedKeyFailsAssembly ==
    /\ pc \in {"load_intrinsics", "frames"} => camera_ids = NeededCameras
    /\ DOMAIN all_intrinsics \subseteq NeededCameras
    /\ MalformedKey =>
          LET bad == Smallest({ k \in InputKeys : ~WellFormed(k) })
          IN  /\ ~Written
              /\ \A i \in DOMAIN frame_names : StrLess(frame_names[i], bad)
              /\ Finished =>
                    /\ exit_status = 1
                    /\ error = "AssertionError" =>
                          { frame_names[i] : i \in DOMAIN frame_names } = Before(bad)
                    /\ (/\ ~EmptyDirectory /\ ~BadShape /\ ~UnsupportedMode
                        /\ ~ShortIntrinsics
                        /\ camera_front_start # None => ~Singular(camera_front_start)
                        /\ \A k \in Before(bad) : IntrinsicsFile(CameraOf(k)) # Missing)
                          => error = "AssertionError"

\* a three-part key ending in "_0" was the reference and failed the assertion
\* after the frame of a smaller key was assembled
C9_Witness ==
    /\ Finished
    /\ error = "AssertionError"
    /\ Len(frames) = 1
    /\ \E k \in InputKeys : ~WellFormed(k) /\ EndsWith(k, <<"_", "0">>)
                              /\ camera_front_start = RawOf(k)
    /\ FrontKeys = {}

(***************************************************************************)
(* C10: when the directory lists no .txt file the loader returns an empty  *)
(* mapping without raising and the run ends with status 1, with no         *)
(* intrinsics loaded, no reference chosen, no frame and no document.       *)
(***************************************************************************)
C10_EmptyDirectoryStops ==
    (EmptyDirectory /\ pc # "scan") =>
        /\ Finished
        /\ exit_status = 1
        /\ error = ""
        /\ extrinsics = <<>>
        /\ camera_ids = {}
        /\ all_intrinsics = <<>>
        /\ camera_front_start = None
        /\ frames = <<>>
        /\ ~Written

\* a directory holding only a file of another extension, in multi-camera mode
C10_Witness ==
    /\ Finished
    /\ Len(listing) = 1
    /\ EmptyDirectory
    /\ args.multi_camera
    /\ exit_status = 1

====
